---- MODULE Spec2Model ----
(***************************************************************************)
(* Attendance log pipeline of process_attendance.py: read_and_parse_data,  *)
(* remove_duplicates, group_by_employee_and_date, process_daily_records    *)
(* and the writers, run by process_attendance.                             *)
(*                                                                         *)
(* A Python str is a sequence of one-character strings, a list is a        *)
(* sequence, a dict is the sequence of its items in insertion order.       *)
(* A datetime is the record [ts, off]: the instant in epoch seconds and    *)
(* the UTC offset of its tzinfo in seconds.                                *)
(***************************************************************************)
EXTENDS Integers, Sequences, FiniteSets, TLC

\* ------------------------------------------------------------------ bounds
\* Largest number of lines of the input file.
MaxLines == 3

\* Largest number of tokens of a line of LineSpec.
MaxTokens == 7

\* Largest number of lines of the input file of VariantSpec.
MaxVariantLines == 2

\* Largest number of lines of the input file of ConvertSpec.
MaxLogLines == 3

\* Largest number of lines of the input file of FlagSpec.
MaxFlagLines == 3

\* ------------------------------------------------------- program constants
\* LATE_ENTRY_LIMIT = time(9, 30), in seconds after local midnight.
LATE_ENTRY_LIMIT == 34200

\* EARLY_EXIT_LIMIT = time(17, 0), in seconds after local midnight.
EARLY_EXIT_LIMIT == 61200

\* Asia/Dhaka standard offset, +06:00.
DHAKA_STD_OFFSET == 21600

\* Asia/Dhaka offset while the zone's 2009 daylight-saving rule is in force.
DHAKA_DST_OFFSET == 25200

\* First and one-past-last instant of the zone's 2009 daylight-saving rule.
DHAKA_DST_BEGIN == 1245430800
DHAKA_DST_END == 1262278800

\* timezone(timedelta(hours=6)) of process_attendance4.py.
BDT_OFFSET == 21600

\* ----------------------------------------------------------------- strings
DigitChars == <<"0", "1", "2", "3", "4", "5", "6", "7", "8", "9">>

AsciiDigit == {DigitChars[i] : i \in 1..10}

\* "sup2" stands for the one character U+00B2: str.isdigit() accepts it and
\* int() rejects it.
UnicodeDigit == AsciiDigit \cup {"sup2"}

Whitespace == {" ", "\n"}

DigitValue(c) == CHOOSE v \in 0..9 : DigitChars[v + 1] = c

\* str(n) for n >= 0.
RECURSIVE Str(_)
Str(n) == IF n < 10 THEN <<DigitChars[n + 1]>>
          ELSE Str(n \div 10) \o <<DigitChars[(n % 10) + 1]>>

\* f"{n:02}".
Pad2(n) == IF n < 10 THEN <<"0">> \o Str(n) ELSE Str(n)

\* sep.join(parts).
RECURSIVE Join(_, _)
Join(parts, sep) ==
    IF parts = <<>> THEN <<>>
    ELSE IF Len(parts) = 1 THEN parts[1]
    ELSE parts[1] \o sep \o Join(Tail(parts), sep)

\* str.strip(): leading and trailing whitespace removed.
RECURSIVE LStrip(_)
LStrip(s) == IF s # <<>> /\ s[1] \in Whitespace THEN LStrip(Tail(s)) ELSE s

RECURSIVE RStrip(_)
RStrip(s) == IF s # <<>> /\ s[Len(s)] \in Whitespace
             THEN RStrip(SubSeq(s, 1, Len(s) - 1)) ELSE s

Strip(s) == RStrip(LStrip(s))

\* str.split() without arguments: the maximal runs of non-whitespace.
RECURSIVE SplitFrom(_, _, _)
SplitFrom(s, cur, acc) ==
    IF s = <<>> THEN (IF cur = <<>> THEN acc ELSE Append(acc, cur))
    ELSE IF s[1] \in Whitespace
         THEN SplitFrom(Tail(s), <<>>, IF cur = <<>> THEN acc ELSE Append(acc, cur))
         ELSE SplitFrom(Tail(s), Append(cur, s[1]), acc)

Split(s) == SplitFrom(s, <<>>, <<>>)

\* str.isdigit(): non-empty and every character a digit.
IsDigit(p) == p # <<>> /\ \A i \in 1..Len(p) : p[i] \in UnicodeDigit

\* ------------------------------------------------------------- timestamps
\* An optional value is a sequence of at most one element: None, or <<v>>.
None == <<>>

Some(v) == <<v>>

\* int(ts_str) raises ValueError unless every character is an ASCII digit.
IntFails(p) == \E i \in 1..Len(p) : p[i] \notin AsciiDigit

\* int(ts_str) of an ASCII digit string (values below 2^31).
RECURSIVE IntOf(_)
IntOf(p) == IF p = <<>> THEN 0
            ELSE IntOf(SubSeq(p, 1, Len(p) - 1)) * 10 + DigitValue(p[Len(p)])

RECURSIVE StripZeros(_)
StripZeros(p) == IF Len(p) > 1 /\ p[1] = "0" THEN StripZeros(Tail(p)) ELSE p

\* a > b for digit strings without leading zeros.
RECURSIVE DigitsGreater(_, _)
DigitsGreater(a, b) ==
    IF Len(a) # Len(b) THEN Len(a) > Len(b)
    ELSE IF a = <<>> THEN FALSE
    ELSE IF a[1] # b[1] THEN DigitValue(a[1]) > DigitValue(b[1])
    ELSE DigitsGreater(Tail(a), Tail(b))

\* Largest epoch value whose +06:00 local time is still in year 9999:
\* datetime.fromtimestamp raises OverflowError or ValueError above it.
MaxEpochDigits == <<"2", "5", "3", "4", "0", "2", "2", "7", "9", "1", "9", "9">>

FromTimestampFails(p) == DigitsGreater(StripZeros(p), MaxEpochDigits)

\* utcoffset of pytz.timezone('Asia/Dhaka') at the instant ts >= 0.
DhakaUtcOffset(ts) ==
    IF ts >= DHAKA_DST_BEGIN /\ ts < DHAKA_DST_END
    THEN DHAKA_DST_OFFSET ELSE DHAKA_STD_OFFSET

\* datetime.fromtimestamp(ts, tz=DHAKA_TZ).
convert_to_bst(ts) == [ts |-> ts, off |-> DhakaUtcOffset(ts)]

\* convert_to_bst of process_attendance4.py: a fixed-offset timezone.
convert_to_bst4(ts) == [ts |-> ts, off |-> BDT_OFFSET]

\* Seconds of the local wall clock since 1970-01-01 00:00 local.
LocalSeconds(dt) == dt.ts + dt.off

\* datetime.time(), in seconds after local midnight.
TimeOf(dt) == LocalSeconds(dt) % 86400

\* Days from 1970-01-01 to the local calendar date.
DayNumber(dt) == LocalSeconds(dt) \div 86400

\* The proleptic Gregorian date of a day number >= 0.
CivilFromDays(days) ==
    LET z == days + 719468
        era == z \div 146097
        doe == z - era * 146097
        yoe == (doe - doe \div 1460 + doe \div 36524 - doe \div 146096) \div 365
        doy == doe - (365 * yoe + yoe \div 4 - yoe \div 100)
        mp == (5 * doy + 2) \div 153
        d == doy - (153 * mp + 2) \div 5 + 1
        m == IF mp < 10 THEN mp + 3 ELSE mp - 9
        y == yoe + era * 400 + (IF m <= 2 THEN 1 ELSE 0)
    IN [year |-> y, month |-> m, day |-> d]

\* datetime.date().
DateOf(dt) == CivilFromDays(DayNumber(dt))

\* str(date_): "YYYY-MM-DD" (years 1000..9999).
DateStr(date) == Str(date.year) \o <<"-">> \o Pad2(date.month) \o <<"-">> \o Pad2(date.day)

\* datetime.strftime("%H:%M").
StrfHM(dt) == Pad2(TimeOf(dt) \div 3600) \o <<":">> \o Pad2((TimeOf(dt) % 3600) \div 60)

\* Order of two aware datetimes: the order of their instants.
DtLess(a, b) == a.ts < b.ts

\* Equality (and hash) of two aware datetimes: the same instant.
DtEq(a, b) == a.ts = b.ts

\* Order of Python strings, by code point; every character is ASCII here.
CharOrder == <<" ", "-", "0", "1", "2", "3", "4", "5", "6", "7", "8", "9", ":",
               "A", "B", "D", "E", "G", "J", "L", "a", "c", "e", "h", "n", "o",
               "t", "v", "x", "sup2">>

CodePoint(c) == CHOOSE i \in 1..Len(CharOrder) : CharOrder[i] = c

RECURSIVE StrLess(_, _)
StrLess(a, b) ==
    IF b = <<>> THEN FALSE
    ELSE IF a = <<>> THEN TRUE
    ELSE IF a[1] # b[1] THEN CodePoint(a[1]) < CodePoint(b[1])
    ELSE StrLess(Tail(a), Tail(b))

\* ------------------------------------------------------------ line parser
\* A diagnostic f"Line {line_number}: {reason} ... {text}".
Diagnostic(line_number, reason, text) ==
    [line_number |-> line_number, reason |-> reason, text |-> text]

\* The upper limit off by one: elif len(parts) > 7.
validate_row_max7(parts, line_number, line) ==
    IF Len(parts) < 4
    THEN Some(Diagnostic(line_number, "Missing columns", Strip(line)))
    ELSE IF Len(parts) > 7
    THEN Some(Diagnostic(line_number, "Too many columns", Strip(line)))
    ELSE None

validate_row(parts, line_number, line) ==
    IF Len(parts) < 4
    THEN Some(Diagnostic(line_number, "Missing columns", Strip(line)))
    ELSE IF Len(parts) > 6
    THEN Some(Diagnostic(line_number, "Too many columns", Strip(line)))
    ELSE None

\* next((i for i, p in enumerate(parts) if p.isdigit() and len(p) > 6), None);
\* positions are counted from 1 here, from 0 in the source.
FirstTimestampIndex(parts) ==
    LET found == {i \in 1..Len(parts) : IsDigit(parts[i]) /\ Len(parts[i]) > 6}
    IN IF found = {} THEN None
       ELSE Some(CHOOSE i \in found : \A j \in found : i <= j)

parse_timestamp(parts, line_number, line) ==
    LET ts_index == FirstTimestampIndex(parts)
    IN IF ts_index = None
       THEN [ts_str |-> None, device |-> None,
             error |-> Some(Diagnostic(line_number, "Missing or invalid timestamp",
                                       Strip(line)))]
       ELSE [ts_str |-> Some(parts[ts_index[1]]),
             device |-> Some(Join(SubSeq(parts, ts_index[1] + 1, Len(parts)), <<" ">>)),
             error |-> None]

\* read_line without the `continue` after errors.append(ts_error): the try
\* block then runs on ts_str = None, int(None) raises TypeError, and the
\* handler appends a second diagnostic for the same line.
read_line_no_continue(data_, errors_, line_no, line) ==
    LET parts == Split(Strip(line))
        error == validate_row(parts, line_no, line)
    IN IF error # None
       THEN [data |-> data_, errors |-> Append(errors_, error[1])]
       ELSE
         LET parsed == parse_timestamp(parts, line_no, line)
         IN IF parsed.error # None
            THEN [data |-> data_,
                  errors |-> Append(Append(errors_, parsed.error[1]),
                                    Diagnostic(line_no, "Invalid timestamp", None))]
            ELSE
              LET ts_str == parsed.ts_str[1]
              IN IF IntFails(ts_str) \/ FromTimestampFails(ts_str)
                 THEN [data |-> data_,
                       errors |-> Append(errors_,
                                         Diagnostic(line_no, "Invalid timestamp", ts_str))]
                 ELSE [data |-> Append(data_,
                                       [emp_code |-> parts[1],
                                        first_name |-> parts[2],
                                        last_name |-> parts[3],
                                        datetime |-> convert_to_bst(IntOf(ts_str)),
                                        device |-> parsed.device[1],
                                        timestamp |-> IntOf(ts_str)]),
                       errors |-> errors_]

\* read_line whose exception handler only does `continue`: a timestamp that
\* does not convert leaves no diagnostic.
read_line_swallow(data_, errors_, line_no, line) ==
    LET parts == Split(Strip(line))
        error == validate_row(parts, line_no, line)
    IN IF error # None
       THEN [data |-> data_, errors |-> Append(errors_, error[1])]
       ELSE
         LET parsed == parse_timestamp(parts, line_no, line)
         IN IF parsed.error # None
            THEN [data |-> data_, errors |-> Append(errors_, parsed.error[1])]
            ELSE
              LET ts_str == parsed.ts_str[1]
              IN IF IntFails(ts_str) \/ FromTimestampFails(ts_str)
                 THEN [data |-> data_, errors |-> errors_]
                 ELSE [data |-> Append(data_,
                                       [emp_code |-> parts[1],
                                        first_name |-> parts[2],
                                        last_name |-> parts[3],
                                        datetime |-> convert_to_bst(IntOf(ts_str)),
                                        device |-> parsed.device[1],
                                        timestamp |-> IntOf(ts_str)]),
                       errors |-> errors_]

\* One iteration of the loop of read_and_parse_data over `line`, numbered
\* line_no: the lists data and errors after it.
read_line(data_, errors_, line_no, line) ==
    LET parts == Split(Strip(line))
        error == validate_row(parts, line_no, line)
    IN IF error # None
       THEN [data |-> data_, errors |-> Append(errors_, error[1])]
       ELSE
         LET parsed == parse_timestamp(parts, line_no, line)
         IN IF parsed.error # None
            THEN [data |-> data_, errors |-> Append(errors_, parsed.error[1])]
            ELSE
              LET ts_str == parsed.ts_str[1]
              IN IF IntFails(ts_str) \/ FromTimestampFails(ts_str)
                 THEN [data |-> data_,
                       errors |-> Append(errors_,
                                         Diagnostic(line_no, "Invalid timestamp", ts_str))]
                 ELSE [data |-> Append(data_,
                                       [emp_code |-> parts[1],
                                        first_name |-> parts[2],
                                        last_name |-> parts[3],
                                        datetime |-> convert_to_bst(IntOf(ts_str)),
                                        device |-> parsed.device[1],
                                        timestamp |-> IntOf(ts_str)]),
                       errors |-> errors_]

\* ----------------------------------------------------------- deduplicator
\* The dict key (d["emp_code"], d["datetime"], d["device"]).
DedupKey(d) == <<d.emp_code, d.datetime, d.device>>

\* A dict keyed without the datetime: (d["emp_code"], d["device"]).
SameDedupKey_no_datetime(k1, k2) == k1[1] = k2[1] /\ k1[3] = k2[3]

\* Two dict keys are the same key: equal strings, equal datetimes.
SameDedupKey(k1, k2) == k1[1] = k2[1] /\ DtEq(k1[2], k2[2]) /\ k1[3] = k2[3]

\* unique.setdefault(key, value): a key already present keeps its value.
DedupPut_first_wins(items, key, value) ==
    IF \E i \in 1..Len(items) : SameDedupKey(items[i].key, key)
    THEN items
    ELSE Append(items, [key |-> key, value |-> value])

\* unique[key] = value on a dict kept as the sequence of its items: a key
\* already present keeps its place and takes the new value.
DedupPut(items, key, value) ==
    IF \E i \in 1..Len(items) : SameDedupKey(items[i].key, key)
    THEN [i \in 1..Len(items) |->
            IF SameDedupKey(items[i].key, key)
            THEN [key |-> items[i].key, value |-> value] ELSE items[i]]
    ELSE Append(items, [key |-> key, value |-> value])

RECURSIVE DedupDict(_)
DedupDict(data_) ==
    IF data_ = <<>> THEN <<>>
    ELSE LET d == data_[Len(data_)]
         IN DedupPut(DedupDict(SubSeq(data_, 1, Len(data_) - 1)), DedupKey(d), d)

\* No deduplication: the parsed list as it is.
remove_duplicates_none(data_) ==
    data_

remove_duplicates(data_) ==
    LET items == DedupDict(data_)
    IN [i \in 1..Len(items) |-> items[i].value]

\* ---------------------------------------------------------------- grouper
\* A key from the date of the UTC instant instead of the local date.
GroupKey_utc_date(record) ==
    <<record.emp_code, CivilFromDays(record.datetime.ts \div 86400)>>

GroupKey(record) == <<record.emp_code, DateOf(record.datetime)>>

\* The groups kept as a list of pairs: every record opens a group of its own.
GroupPut_always_new(items, key, record) ==
    Append(items, [key |-> key, records |-> <<record>>])

\* grouped[key].append(record) on a defaultdict(list).
GroupPut(items, key, record) ==
    IF \E i \in 1..Len(items) : items[i].key = key
    THEN [i \in 1..Len(items) |->
            IF items[i].key = key
            THEN [key |-> key, records |-> Append(items[i].records, record)]
            ELSE items[i]]
    ELSE Append(items, [key |-> key, records |-> <<record>>])

RECURSIVE group_by_employee_and_date(_)
group_by_employee_and_date(data_) ==
    IF data_ = <<>> THEN <<>>
    ELSE LET record == data_[Len(data_)]
         IN GroupPut(group_by_employee_and_date(SubSeq(data_, 1, Len(data_) - 1)),
                     GroupKey(record), record)

\* ------------------------------------------------------- daily summarizer
\* minutes taken from the total seconds instead of the remainder.
calculate_working_hours_total_minutes(first_punch, last_punch, total_punches) ==
    IF total_punches > 1
    THEN LET duration == last_punch.ts - first_punch.ts
             total_seconds == IF duration > 0 THEN duration ELSE 0
             hours == total_seconds \div 3600
             minutes == total_seconds \div 60
         IN Pad2(hours) \o <<":">> \o Pad2(minutes)
    ELSE <<"0", "0", ":", "0", "0">>

calculate_working_hours(first_punch, last_punch, total_punches) ==
    IF total_punches > 1
    THEN LET duration == last_punch.ts - first_punch.ts
             total_seconds == IF duration > 0 THEN duration ELSE 0
             hours == total_seconds \div 3600
             remainder == total_seconds % 3600
             minutes == remainder \div 60
         IN Pad2(hours) \o <<":">> \o Pad2(minutes)
    ELSE <<"0", "0", ":", "0", "0">>

\* The times cut to the minute, as they are displayed, before the comparison.
check_attendance_flags_by_minute(first_punch, last_punch) ==
    [late |-> IF (TimeOf(first_punch) \div 60) * 60 > LATE_ENTRY_LIMIT
              THEN "Yes" ELSE "No",
     early |-> IF (TimeOf(last_punch) \div 60) * 60 < EARLY_EXIT_LIMIT
               THEN "Yes" ELSE "No"]

\* The limits taken as inclusive: >= and <=.
check_attendance_flags_inclusive(first_punch, last_punch) ==
    [late |-> IF TimeOf(first_punch) >= LATE_ENTRY_LIMIT THEN "Yes" ELSE "No",
     early |-> IF TimeOf(last_punch) <= EARLY_EXIT_LIMIT THEN "Yes" ELSE "No"]

check_attendance_flags(first_punch, last_punch) ==
    [late |-> IF TimeOf(first_punch) > LATE_ENTRY_LIMIT THEN "Yes" ELSE "No",
     early |-> IF TimeOf(last_punch) < EARLY_EXIT_LIMIT THEN "Yes" ELSE "No"]

\* list.sort(key=lambda r: r["datetime"]): a stable sort, here by insertion.
InsertByDatetime(sorted, r) ==
    LET later == {i \in 1..Len(sorted) : DtLess(r.datetime, sorted[i].datetime)}
        at == IF later = {} THEN Len(sorted) + 1
              ELSE CHOOSE i \in later : \A j \in later : i <= j
    IN SubSeq(sorted, 1, at - 1) \o <<r>> \o SubSeq(sorted, at, Len(sorted))

\* The records left in the order of the group: no sort.
SortByDatetime_unsorted(records) == records

RECURSIVE SortByDatetime(_)
SortByDatetime(records) ==
    IF records = <<>> THEN <<>>
    ELSE InsertByDatetime(SortByDatetime(SubSeq(records, 1, Len(records) - 1)),
                          records[Len(records)])

\* The summary of one (emp_code, date_) group, from its sorted records.
DailySummary(emp_code, records) ==
    LET first == records[1]
        last == records[Len(records)]
        total_punches == Len(records)
        working_hours == calculate_working_hours(first.datetime, last.datetime,
                                                 total_punches)
        flags == check_attendance_flags(first.datetime, last.datetime)
    IN [emp_code |-> emp_code,
        first_punch |-> StrfHM(first.datetime),
        last_punch |-> StrfHM(last.datetime),
        total_punches |-> total_punches,
        working_hours |-> working_hours,
        late_entry |-> IF flags.late = "Yes" THEN 1 ELSE 0,
        early_exit |-> IF flags.early = "Yes" THEN 1 ELSE 0]

\* final_output[str(date_)].append(summary) on a defaultdict(list).
FinalPut(items, date, summary) ==
    IF \E i \in 1..Len(items) : items[i].date = date
    THEN [i \in 1..Len(items) |->
            IF items[i].date = date
            THEN [date |-> date, records |-> Append(items[i].records, summary)]
            ELSE items[i]]
    ELSE Append(items, [date |-> date, records |-> <<summary>>])

\* records.sort(...) of every group, in place.
SortGroups(grouped_data) ==
    [i \in 1..Len(grouped_data) |->
        [key |-> grouped_data[i].key,
         records |-> SortByDatetime(grouped_data[i].records)]]

RECURSIVE FinalOutput(_)
FinalOutput(sorted_groups) ==
    IF sorted_groups = <<>> THEN <<>>
    ELSE LET g == sorted_groups[Len(sorted_groups)]
         IN FinalPut(FinalOutput(SubSeq(sorted_groups, 1, Len(sorted_groups) - 1)),
                     DateStr(g.key[2]), DailySummary(g.key[1], g.records))

\* One row of excel_data per group, in the order of the groups.
ExcelData(sorted_groups) ==
    [i \in 1..Len(sorted_groups) |->
        [Date |-> DateStr(sorted_groups[i].key[2]),
         row |-> DailySummary(sorted_groups[i].key[1], sorted_groups[i].records)]]

process_daily_records(grouped_data) ==
    LET sorted_groups == SortGroups(grouped_data)
    IN [grouped |-> sorted_groups,
        final_output |-> FinalOutput(sorted_groups),
        excel_data |-> ExcelData(sorted_groups)]

\* sorted(records, key=lambda r: r["emp_code"]): a stable sort, by insertion.
InsertByEmpCode(sorted, r) ==
    LET later == {i \in 1..Len(sorted) : StrLess(r.emp_code, sorted[i].emp_code)}
        at == IF later = {} THEN Len(sorted) + 1
              ELSE CHOOSE i \in later : \A j \in later : i <= j
    IN SubSeq(sorted, 1, at - 1) \o <<r>> \o SubSeq(sorted, at, Len(sorted))

RECURSIVE SortByEmpCode(_)
SortByEmpCode(records) ==
    IF records = <<>> THEN <<>>
    ELSE InsertByEmpCode(SortByEmpCode(SubSeq(records, 1, Len(records) - 1)),
                         records[Len(records)])

\* {date: sorted(records, key=emp_code) for date, records in final_json.items()}
SortEachDate(final_output_) ==
    [i \in 1..Len(final_output_) |->
        [date |-> final_output_[i].date,
         records |-> SortByEmpCode(final_output_[i].records)]]

\* ------------------------------- process_attendance1 / process_attendance2
\* The separator written in the error messages of process_attendance1.py:
\* the one character U+2192.
ARROW == <<"U+2192">>

\* The separator written in the error messages of process_attendance2.py:
\* the three characters U+00E2 U+2020 U+2019.
ARROW_V2 == <<"U+00E2", "U+2020", "U+2019">>

\* An error message f"Line {line_number}: {reason} {arrow} {text}".
ErrorLine(line_number, reason, arrow, text) ==
    [line_number |-> line_number, reason |-> reason, arrow |-> arrow, text |-> text]

\* datetime.utcfromtimestamp(ts) + BDT_OFFSET: a naive datetime, kept as the
\* instant and the offset added to it.
convert_to_bdt(ts) == [ts |-> ts, off |-> BDT_OFFSET]

\* One iteration of the loop of process_attendance1.process_attendance.
read_line_v1(data_, error_lines_, line_number, line) ==
    LET parts == Split(Strip(line))
    IN IF Len(parts) < 5
       THEN [data |-> data_,
             error_lines |-> Append(error_lines_,
                 ErrorLine(line_number, "Missing columns", ARROW, Strip(line)))]
       ELSE IF Len(parts) > 6
       THEN [data |-> data_,
             error_lines |-> Append(error_lines_,
                 ErrorLine(line_number, "Too many columns", ARROW, Strip(line)))]
       ELSE
         LET timestamp_index == FirstTimestampIndex(parts)
         IN IF timestamp_index = None
            THEN [data |-> data_,
                  error_lines |-> Append(error_lines_,
                      ErrorLine(line_number, "Missing or invalid timestamp", ARROW,
                                Strip(line)))]
            ELSE
              LET timestamp_str == parts[timestamp_index[1]]
                  device == Join(SubSeq(parts, timestamp_index[1] + 1, Len(parts)),
                                 <<" ">>)
              IN IF IntFails(timestamp_str) \/ FromTimestampFails(timestamp_str)
                 THEN [data |-> data_,
                       error_lines |-> Append(error_lines_,
                           ErrorLine(line_number, "Invalid timestamp", ARROW,
                                     timestamp_str))]
                 ELSE [data |-> Append(data_,
                                       [emp_code |-> parts[1],
                                        first_name |-> parts[2],
                                        last_name |-> parts[3],
                                        datetime |-> convert_to_bdt(IntOf(timestamp_str)),
                                        device |-> device]),
                       error_lines |-> error_lines_]

RECURSIVE read_lines_v1(_)
\* The loop of process_attendance1.process_attendance over the lines of the
\* file: data and error_lines after it.
read_lines_v1(lines_) ==
    IF lines_ = <<>> THEN [data |-> <<>>, error_lines |-> <<>>]
    ELSE LET before == read_lines_v1(SubSeq(lines_, 1, Len(lines_) - 1))
         IN read_line_v1(before.data, before.error_lines, Len(lines_),
                         lines_[Len(lines_)])

\* validate_row of process_attendance2.py.
validate_row_v2(parts, line_number, line) ==
    IF Len(parts) < 5
    THEN Some(ErrorLine(line_number, "Missing columns", ARROW_V2, Strip(line)))
    ELSE IF Len(parts) > 6
    THEN Some(ErrorLine(line_number, "Too many columns", ARROW_V2, Strip(line)))
    ELSE None

\* parse_timestamp of process_attendance2.py.
parse_timestamp_v2(parts, line_number, line) ==
    LET timestamp_index == FirstTimestampIndex(parts)
    IN IF timestamp_index = None
       THEN [timestamp_str |-> None, device |-> None,
             error |-> Some(ErrorLine(line_number, "Missing or invalid timestamp",
                                      ARROW_V2, Strip(line)))]
       ELSE [timestamp_str |-> Some(parts[timestamp_index[1]]),
             device |-> Some(Join(SubSeq(parts, timestamp_index[1] + 1, Len(parts)),
                                  <<" ">>)),
             error |-> None]

\* One iteration of the loop of process_attendance2.read_and_parse_data.
read_line_v2(data_, error_lines_, line_number, line) ==
    LET parts == Split(Strip(line))
        validation_error == validate_row_v2(parts, line_number, line)
    IN IF validation_error # None
       THEN [data |-> data_, error_lines |-> Append(error_lines_, validation_error[1])]
       ELSE
         LET parsed == parse_timestamp_v2(parts, line_number, line)
         IN IF parsed.error # None
            THEN [data |-> data_, error_lines |-> Append(error_lines_, parsed.error[1])]
            ELSE
              LET timestamp_str == parsed.timestamp_str[1]
              IN IF IntFails(timestamp_str) \/ FromTimestampFails(timestamp_str)
                 THEN [data |-> data_,
                       error_lines |-> Append(error_lines_,
                           ErrorLine(line_number, "Invalid timestamp", ARROW_V2,
                                     timestamp_str))]
                 ELSE [data |-> Append(data_,
                                       [emp_code |-> parts[1],
                                        first_name |-> parts[2],
                                        last_name |-> parts[3],
                                        datetime |-> convert_to_bdt(IntOf(timestamp_str)),
                                        device |-> parsed.device[1]]),
                       error_lines |-> error_lines_]

RECURSIVE read_lines_v2(_)
read_lines_v2(lines_) ==
    IF lines_ = <<>> THEN [data |-> <<>>, error_lines |-> <<>>]
    ELSE LET before == read_lines_v2(SubSeq(lines_, 1, Len(lines_) - 1))
         IN read_line_v2(before.data, before.error_lines, Len(lines_),
                         lines_[Len(lines_)])

\* read_and_parse_data of process_attendance2.py.
read_and_parse_data_v2(exists, lines_) ==
    IF ~exists
    THEN [data |-> <<>>,
          error_lines |-> <<ErrorLine(0, "File not found", <<>>, <<>>)>>]
    ELSE read_lines_v2(lines_)

\* Working hours of process_attendance1.py: divmod(duration.seconds, 3600),
\* the seconds field of the timedelta, its days left out.
working_hours_v1(first_punch, last_punch, total_punches) ==
    IF total_punches > 1
    THEN LET seconds == (LocalSeconds(last_punch) - LocalSeconds(first_punch)) % 86400
             hours == seconds \div 3600
             remainder == seconds % 3600
             minutes == remainder \div 60
         IN Pad2(hours) \o <<":">> \o Pad2(minutes)
    ELSE <<"0", "0", ":", "0", "0">>

\* calculate_working_hours of process_attendance2.py.
calculate_working_hours_v2(first_punch, last_punch, total_punches) ==
    IF total_punches > 1
    THEN LET duration == LocalSeconds(last_punch) - LocalSeconds(first_punch)
             total_seconds == IF duration > 0 THEN duration ELSE 0
             hours == total_seconds \div 3600
             remainder == total_seconds % 3600
             minutes == remainder \div 60
         IN Pad2(hours) \o <<":">> \o Pad2(minutes)
    ELSE <<"0", "0", ":", "0", "0">>

\* LATE_ENTRY_LIMIT = time(9, 30) and EARLY_EXIT_LIMIT = time(17, 0) of both
\* variants; check_attendance_flags of process_attendance2.py.
check_attendance_flags_v2(first_punch, last_punch) ==
    [late_entry |-> IF TimeOf(first_punch) > LATE_ENTRY_LIMIT THEN 1 ELSE 0,
     early_exit |-> IF TimeOf(last_punch) < EARLY_EXIT_LIMIT THEN 1 ELSE 0]

\* The summary process_attendance1.py appends for one group.
DailySummary_v1(emp_code, records) ==
    LET first_punch == records[1].datetime
        last_punch == records[Len(records)].datetime
        total_punches == Len(records)
    IN [emp_code |-> emp_code,
        first_punch |-> StrfHM(first_punch),
        last_punch |-> StrfHM(last_punch),
        total_punches |-> total_punches,
        working_hours |-> working_hours_v1(first_punch, last_punch, total_punches),
        late_entry |-> IF TimeOf(first_punch) > LATE_ENTRY_LIMIT THEN 1 ELSE 0,
        early_exit |-> IF TimeOf(last_punch) < EARLY_EXIT_LIMIT THEN 1 ELSE 0,
        shift_period |-> "09:00 - 18:00"]

\* The summary process_attendance2.process_daily_records appends for one group.
DailySummary_v2(emp_code, records) ==
    LET first_punch == records[1].datetime
        last_punch == records[Len(records)].datetime
        total_punches == Len(records)
        flags == check_attendance_flags_v2(first_punch, last_punch)
    IN [emp_code |-> emp_code,
        first_punch |-> StrfHM(first_punch),
        last_punch |-> StrfHM(last_punch),
        total_punches |-> total_punches,
        working_hours |-> calculate_working_hours_v2(first_punch, last_punch,
                                                     total_punches),
        late_entry |-> flags.late_entry,
        early_exit |-> flags.early_exit,
        shift_period |-> "09:00 - 18:00"]

RECURSIVE FinalOutput_v1(_)
\* Step 4 of process_attendance1.py over the groups, in their order.
FinalOutput_v1(grouped_) ==
    IF grouped_ = <<>> THEN <<>>
    ELSE LET g == grouped_[Len(grouped_)]
         IN FinalPut(FinalOutput_v1(SubSeq(grouped_, 1, Len(grouped_) - 1)),
                     DateStr(g.key[2]),
                     DailySummary_v1(g.key[1], SortByDatetime(g.records)))

RECURSIVE process_daily_records_v2(_)
process_daily_records_v2(grouped_data) ==
    IF grouped_data = <<>> THEN <<>>
    ELSE LET g == grouped_data[Len(grouped_data)]
         IN FinalPut(process_daily_records_v2(SubSeq(grouped_data, 1,
                                                     Len(grouped_data) - 1)),
                     DateStr(g.key[2]),
                     DailySummary_v2(g.key[1], SortByDatetime(g.records)))

\* sorted(final_output.items()): the (date, records) pairs in ascending order
\* of their dates, which are distinct; by insertion.
InsertByDate(sorted, item) ==
    LET later == {i \in 1..Len(sorted) : StrLess(item.date, sorted[i].date)}
        at == IF later = {} THEN Len(sorted) + 1
              ELSE CHOOSE i \in later : \A j \in later : i <= j
    IN SubSeq(sorted, 1, at - 1) \o <<item>> \o SubSeq(sorted, at, Len(sorted))

RECURSIVE SortByDate(_)
SortByDate(items) ==
    IF items = <<>> THEN <<>>
    ELSE InsertByDate(SortByDate(SubSeq(items, 1, Len(items) - 1)), items[Len(items)])

\* sort_output_data of process_attendance2.py, and Step 5 of
\* process_attendance1.py, which is the same expression.
sort_output_data(final_output_) == SortEachDate(SortByDate(final_output_))

\* ------------------------------------------------------ date_time_convert
\* datetime.strftime("%y-%m-%d %H:%M").
StrfShort(dt) ==
    LET date == DateOf(dt)
    IN Pad2(date.year % 100) \o <<"-">> \o Pad2(date.month) \o <<"-">>
       \o Pad2(date.day) \o <<" ">> \o StrfHM(dt)

\* convert_timestamp of date_time_convert.py: the instant in UTC and in BST,
\* timezone(timedelta(hours=6)).
convert_timestamp(ts) ==
    [utc_time |-> StrfShort([ts |-> ts, off |-> 0]),
     bst_time |-> StrfShort([ts |-> ts, off |-> BDT_OFFSET])]

\* One iteration of the loop of process_log_file on the tokens of a line:
\* the line is skipped, or int(parts[-3]) or convert_timestamp raises, or a
\* record is appended.
process_log_line(parts) ==
    IF Len(parts) < 4
    THEN [raises |-> FALSE, record |-> None]
    ELSE LET emp_id == parts[1]
             name == Join(SubSeq(parts, 2, Len(parts) - 1), <<" ">>)
             ts_token == parts[Len(parts) - 2]
             device == parts[Len(parts)]
         IN IF IntFails(ts_token) \/ FromTimestampFails(ts_token)
            THEN [raises |-> TRUE, record |-> None]
            ELSE LET ts == IntOf(ts_token)
                     times == convert_timestamp(ts)
                 IN [raises |-> FALSE,
                     record |-> Some([emp_id |-> emp_id,
                                      name |-> name,
                                      timestamp |-> ts,
                                      utc |-> times.utc_time,
                                      bst |-> times.bst_time,
                                      device |-> device])]

\* ----------------------------------------------------------------- inputs
\* A line of the file: its tokens separated by single spaces, and a newline.
Line(tokens) == Join(tokens, <<" ">>) \o <<"\n">>

E1 == <<"E", "1">>
E2 == <<"E", "2">>
John == <<"J", "o">>
Jon == <<"J", "n">>
Doe == <<"D", "o", "e">>
Ann == <<"A", "n">>
Lee == <<"L", "e">>
DevA == <<"D", "A">>
DevB == <<"D", "B">>
Gate == <<"G", "t">>

\* Local 09:00, 09:30, 09:31, 17:00 and 17:45 of 1970-01-13 (+06:00).
Ts0900 == Str(1047600)
Ts0930 == Str(1049400)
Ts0931 == Str(1049460)
Ts1700 == Str(1076400)
Ts1745 == Str(1079100)

\* 2009-08-11 17:30 UTC, inside the zone's 2009 daylight-saving period: local
\* 00:30 of 2009-08-12.
TsDst == Str(1250011800)

\* The same instant as Ts0900, written with a leading zero.
Ts0900Zero == <<"0">> \o Ts0900

\* Year 318857: outside the range of datetime.
TsOutOfRange == <<"9", "9", "9", "9", "9", "9", "9", "9", "9", "9", "9", "9", "9">>

\* isdigit() holds, int() raises.
TsNotInt == <<"1", "0", "4", "7", "6", "0", "sup2">>

\* All digits, too short to be taken for a timestamp.
ShortDigits == <<"1", "2", "3", "4", "5", "6">>

LineE1At0900 == Line(<<E1, John, Doe, Ts0900, DevA>>)
LineE1At0930 == Line(<<E1, John, Doe, Ts0930, DevA>>)
\* Six tokens: a device name of two words.
LineE2At0931 == Line(<<E2, Ann, Lee, Ts0931, DevB, Gate>>)
LineE1At1700 == Line(<<E1, John, Doe, Ts1700, DevA>>)
LineE1At1745 == Line(<<E1, John, Doe, Ts1745, DevA>>)
LineE1Dst == Line(<<E1, John, Doe, TsDst, DevA>>)

\* The punch of LineE1At0900 again: another first name, a leading zero in the
\* timestamp, and runs of blanks between and around the tokens.
LineE1At0900Again ==
    <<" ">> \o Join(<<E1, Jon, Doe, Ts0900Zero, DevA>>, <<" ", " ">>) \o <<" ", "\n">>

LineMissingColumns == Line(<<E2, Ann>>)
LineTooManyColumns == Line(<<E2, Ann, Lee, Ts0900, DevB, Gate, Gate>>)
LineMissingTimestamp == Line(<<E1, John, Doe, ShortDigits, DevA>>)
LineOutOfRange == Line(<<E1, John, Doe, TsOutOfRange, DevA>>)
LineNotInt == Line(<<E1, John, Doe, TsNotInt, DevA>>)

\* The lines an input file of Spec is made of.
LinePool ==
    {LineE1At0900, LineE1At0930, LineE2At0931, LineE1At1700, LineE1At1745,
     LineE1Dst, LineE1At0900Again, LineMissingColumns, LineTooManyColumns,
     LineMissingTimestamp, LineOutOfRange, LineNotInt}

\* The tokens a line of LineSpec is made of.
TokenPool == {E1, Ts0900, ShortDigits, TsOutOfRange}

SeqsUpTo(S, n) == UNION {[1..k -> S] : k \in 0..n}

\* Lines for process_log_file: the timestamp third from the end, with four
\* and with five tokens, and tokens there that do not convert.
LogLineFour == Line(<<E1, Ts0900, DevB, Gate>>)
LogLineFive == Line(<<E1, John, Ts1745, DevB, Gate>>)
LogLineOutOfRange == Line(<<E1, John, TsOutOfRange, DevB, Gate>>)

\* Local 09:30:30 of 1970-01-13 (+06:00), and a punch of E2 then.
Ts093030 == Str(1049430)
LineE2At093030 == Line(<<E2, Ann, Lee, Ts093030, DevB>>)

\* The lines an input file of FlagSpec is made of.
FlagLinePool ==
    {LineE1At0900, LineE1At0930, LineE2At093030, LineE2At0931, LineE1At1700,
     LineMissingColumns}

\* The lines an input file of ConvertSpec is made of.
LogLinePool ==
    {LogLineFour, LogLineFive, LogLineOutOfRange, LineE1At0900, LineE2At0931,
     LineMissingColumns}

\* ------------------------------------------------------------------ state
VARIABLES
    file_exists,    \* os.path.exists(csv_file_path)
    lines,          \* the lines of the input file
    line_no,        \* number of lines read_and_parse_data has consumed
    data,           \* read_and_parse_data: data
    errors,         \* read_and_parse_data: errors
    unique,         \* process_attendance: data after remove_duplicates
    grouped,        \* process_attendance: grouped
    final_output,   \* process_daily_records: final_output
    excel_data,     \* process_daily_records: excel_data
    final_json,     \* process_attendance: final_json after the sort by emp_code
    json_file,      \* contents of json_path, None while not written
    excel_file,     \* contents of excel_path (or the CSV), None while not written
    error_log,      \* contents of error_log, None while not written
    pc,             \* position in process_attendance
    variant1,       \* a run of process_attendance1.process_attendance: its locals,
                    \* the files it wrote and its position
    variant2,       \* the same for process_attendance2.process_attendance
    converter       \* a run of date_time_convert.process_log_file: its position,
                    \* the lines consumed, its records and the file it wrote

vars == <<file_exists, lines, line_no, data, errors, unique, grouped, final_output,
          excel_data, final_json, json_file, excel_file, error_log, pc,
          variant1, variant2, converter>>

\* A variant before its first statement: nothing parsed, nothing written.
VariantStart ==
    [pc |-> "start", data |-> <<>>, error_lines |-> <<>>, grouped |-> <<>>,
     final_output |-> <<>>, sorted_output |-> <<>>,
     json_file |-> None, error_log |-> None]

InitRest ==
    /\ line_no = 0
    /\ data = <<>>
    /\ errors = <<>>
    /\ unique = <<>>
    /\ grouped = <<>>
    /\ final_output = <<>>
    /\ excel_data = <<>>
    /\ final_json = <<>>
    /\ json_file = None
    /\ excel_file = None
    /\ error_log = None
    /\ pc = "start"
    /\ variant1 = VariantStart
    /\ variant2 = VariantStart
    /\ converter = [pc |-> "start", line_no |-> 0, records |-> <<>>, json_file |-> None]

Init ==
    /\ file_exists \in BOOLEAN
    /\ lines \in (IF file_exists THEN SeqsUpTo(LinePool, MaxLines) ELSE {<<>>})
    /\ InitRest

\* A file of one line, of up to MaxTokens tokens of TokenPool.
LineInit ==
    /\ file_exists \in BOOLEAN
    /\ lines \in (IF file_exists
                  THEN {<<Line(tokens)>> : tokens \in SeqsUpTo(TokenPool, MaxTokens)}
                  ELSE {<<>>})
    /\ InitRest

\* ---------------------------------------------------------------- actions
\* read_and_parse_data: the path does not exist.
FileNotFound ==
    /\ pc = "start"
    /\ ~file_exists
    /\ errors' = Append(errors, Diagnostic(0, "File not found", <<>>))
    /\ pc' = "parsed"
    /\ UNCHANGED <<variant1, variant2, converter>>
    /\ UNCHANGED <<file_exists, lines, line_no, data, unique, grouped, final_output,
                   excel_data, final_json, json_file, excel_file, error_log>>

\* read_and_parse_data: open(csv_file_path).
OpenFile ==
    /\ pc = "start"
    /\ file_exists
    /\ pc' = "reading"
    /\ UNCHANGED <<variant1, variant2, converter>>
    /\ UNCHANGED <<file_exists, lines, line_no, data, errors, unique, grouped,
                   final_output, excel_data, final_json, json_file, excel_file,
                   error_log>>

\* read_and_parse_data: one iteration of the loop over the lines.
ReadLine ==
    /\ pc = "reading"
    /\ line_no < Len(lines)
    /\ LET after == read_line(data, errors, line_no + 1, lines[line_no + 1])
       IN /\ data' = after.data
          /\ errors' = after.errors
    /\ line_no' = line_no + 1
    /\ UNCHANGED <<variant1, variant2, converter>>
    /\ UNCHANGED <<file_exists, lines, unique, grouped, final_output, excel_data,
                   final_json, json_file, excel_file, error_log, pc>>

\* read_and_parse_data: the file is exhausted, data and errors are returned.
EndOfFile ==
    /\ pc = "reading"
    /\ line_no = Len(lines)
    /\ pc' = "parsed"
    /\ UNCHANGED <<variant1, variant2, converter>>
    /\ UNCHANGED <<file_exists, lines, line_no, data, errors, unique, grouped,
                   final_output, excel_data, final_json, json_file, excel_file,
                   error_log>>

\* process_attendance: if not data: return.
NoValidData ==
    /\ pc = "parsed"
    /\ data = <<>>
    /\ pc' = "done"
    /\ UNCHANGED <<variant1, variant2, converter>>
    /\ UNCHANGED <<file_exists, lines, line_no, data, errors, unique, grouped,
                   final_output, excel_data, final_json, json_file, excel_file,
                   error_log>>

RemoveDuplicates ==
    /\ pc = "parsed"
    /\ data # <<>>
    /\ unique' = remove_duplicates(data)
    /\ pc' = "deduped"
    /\ UNCHANGED <<variant1, variant2, converter>>
    /\ UNCHANGED <<file_exists, lines, line_no, data, errors, grouped, final_output,
                   excel_data, final_json, json_file, excel_file, error_log>>

GroupByEmployeeAndDate ==
    /\ pc = "deduped"
    /\ grouped' = group_by_employee_and_date(unique)
    /\ pc' = "grouped"
    /\ UNCHANGED <<variant1, variant2, converter>>
    /\ UNCHANGED <<file_exists, lines, line_no, data, errors, unique, final_output,
                   excel_data, final_json, json_file, excel_file, error_log>>

ProcessDailyRecords ==
    /\ pc = "grouped"
    /\ LET out == process_daily_records(grouped)
       IN /\ grouped' = out.grouped
          /\ final_output' = out.final_output
          /\ excel_data' = out.excel_data
    /\ pc' = "summarized"
    /\ UNCHANGED <<variant1, variant2, converter>>
    /\ UNCHANGED <<file_exists, lines, line_no, data, errors, unique, final_json,
                   json_file, excel_file, error_log>>

\* process_attendance: every date's summaries sorted by emp_code.
SortFinalJson ==
    /\ pc = "summarized"
    /\ final_json' = SortEachDate(final_output)
    /\ pc' = "sorted"
    /\ UNCHANGED <<variant1, variant2, converter>>
    /\ UNCHANGED <<file_exists, lines, line_no, data, errors, unique, grouped,
                   final_output, excel_data, json_file, excel_file, error_log>>

WriteJsonOutput ==
    /\ pc = "sorted"
    /\ json_file' = Some(final_json)
    /\ pc' = "json_written"
    /\ UNCHANGED <<variant1, variant2, converter>>
    /\ UNCHANGED <<file_exists, lines, line_no, data, errors, unique, grouped,
                   final_output, excel_data, final_json, excel_file, error_log>>

\* write_excel_output: xlwt is installed.
WriteExcelOutput ==
    /\ pc = "json_written"
    /\ excel_file' = Some(excel_data)
    /\ pc' = "excel_written"
    /\ UNCHANGED <<variant1, variant2, converter>>
    /\ UNCHANGED <<file_exists, lines, line_no, data, errors, unique, grouped,
                   final_output, excel_data, final_json, json_file, error_log>>

\* write_excel_output: import xlwt raises ImportError; the handler reads
\* `headers`, which the try block assigns only after the import, so it
\* raises UnboundLocalError and process_attendance ends there; the CSV file,
\* opened for writing just before, is left empty.
WriteExcelOutputNoXlwt ==
    /\ pc = "json_written"
    /\ excel_file' = Some(<<>>)
    /\ pc' = "raised"
    /\ UNCHANGED <<variant1, variant2, converter>>
    /\ UNCHANGED <<file_exists, lines, line_no, data, errors, unique, grouped,
                   final_output, excel_data, final_json, json_file, error_log>>

WriteErrorLog ==
    /\ pc = "excel_written"
    /\ error_log' = IF errors # <<>> THEN Some(errors) ELSE error_log
    /\ pc' = "done"
    /\ UNCHANGED <<variant1, variant2, converter>>
    /\ UNCHANGED <<file_exists, lines, line_no, data, errors, unique, grouped,
                   final_output, excel_data, final_json, json_file, excel_file>>

Next ==
    \/ FileNotFound
    \/ OpenFile
    \/ ReadLine
    \/ EndOfFile
    \/ NoValidData
    \/ RemoveDuplicates
    \/ GroupByEmployeeAndDate
    \/ ProcessDailyRecords
    \/ SortFinalJson
    \/ WriteJsonOutput
    \/ WriteExcelOutput
    \/ WriteExcelOutputNoXlwt
    \/ WriteErrorLog

Spec == Init /\ [][Next]_vars

LineSpec == LineInit /\ [][Next]_vars

\* A file of up to MaxFlagLines lines, with punches on and between the
\* minutes around the late-entry limit.
FlagInit ==
    /\ file_exists \in BOOLEAN
    /\ lines \in (IF file_exists THEN SeqsUpTo(FlagLinePool, MaxFlagLines) ELSE {<<>>})
    /\ InitRest

FlagSpec == FlagInit /\ [][Next]_vars

\* ------------------------------------------- the two variants, side by side
\* The state of process_attendance.py, which the variants do not touch.
main_vars == <<line_no, data, errors, unique, grouped, final_output, excel_data,
               final_json, json_file, excel_file, error_log, pc>>

\* An input file of up to MaxVariantLines lines, both variants at their start.
VariantInit ==
    /\ file_exists \in BOOLEAN
    /\ lines \in (IF file_exists THEN SeqsUpTo(LinePool, MaxVariantLines) ELSE {<<>>})
    /\ InitRest

\* process_attendance1: the path does not exist; print and return.
FileNotFound_v1 ==
    /\ variant1.pc = "start"
    /\ ~file_exists
    /\ variant1' = [variant1 EXCEPT !.pc = "done"]
    /\ UNCHANGED <<file_exists, lines, main_vars, variant2, converter>>

\* process_attendance1, Step 1: the loop over the lines of the file.
ReadCsv_v1 ==
    /\ variant1.pc = "start"
    /\ file_exists
    /\ LET read == read_lines_v1(lines)
       IN variant1' = [variant1 EXCEPT !.data = read.data,
                                       !.error_lines = read.error_lines,
                                       !.pc = "parsed"]
    /\ UNCHANGED <<file_exists, lines, main_vars, variant2, converter>>

\* process_attendance1, Step 2.
RemoveDuplicates_v1 ==
    /\ variant1.pc = "parsed"
    /\ variant1' = [variant1 EXCEPT !.data = remove_duplicates(variant1.data),
                                    !.pc = "deduped"]
    /\ UNCHANGED <<file_exists, lines, main_vars, variant2, converter>>

\* process_attendance1, Step 3.
Group_v1 ==
    /\ variant1.pc = "deduped"
    /\ variant1' = [variant1 EXCEPT !.grouped = group_by_employee_and_date(variant1.data),
                                    !.pc = "grouped"]
    /\ UNCHANGED <<file_exists, lines, main_vars, variant2, converter>>

\* process_attendance1, Step 4.
DailySummaries_v1 ==
    /\ variant1.pc = "grouped"
    /\ variant1' = [variant1 EXCEPT !.grouped = SortGroups(variant1.grouped),
                                    !.final_output = FinalOutput_v1(variant1.grouped),
                                    !.pc = "summarized"]
    /\ UNCHANGED <<file_exists, lines, main_vars, variant2, converter>>

\* process_attendance1, Step 5.
SortOutput_v1 ==
    /\ variant1.pc = "summarized"
    /\ variant1' = [variant1 EXCEPT !.sorted_output = sort_output_data(variant1.final_output),
                                    !.pc = "sorted"]
    /\ UNCHANGED <<file_exists, lines, main_vars, variant2, converter>>

\* process_attendance1, Step 6.
WriteJson_v1 ==
    /\ variant1.pc = "sorted"
    /\ variant1' = [variant1 EXCEPT !.json_file = Some(variant1.sorted_output),
                                    !.pc = "json_written"]
    /\ UNCHANGED <<file_exists, lines, main_vars, variant2, converter>>

\* process_attendance1, Step 7: "\n".join(error_lines), kept as the list of
\* its lines (no message holds a newline), written if there is any.
WriteErrorLog_v1 ==
    /\ variant1.pc = "json_written"
    /\ variant1' = [variant1 EXCEPT !.error_log = IF variant1.error_lines # <<>>
                                                  THEN Some(variant1.error_lines)
                                                  ELSE None,
                                    !.pc = "done"]
    /\ UNCHANGED <<file_exists, lines, main_vars, variant2, converter>>

\* process_attendance2: data, error_lines = read_and_parse_data(csv_file_path).
ReadAndParseData_v2 ==
    /\ variant2.pc = "start"
    /\ LET read == read_and_parse_data_v2(file_exists, lines)
       IN variant2' = [variant2 EXCEPT !.data = read.data,
                                       !.error_lines = read.error_lines,
                                       !.pc = "parsed"]
    /\ UNCHANGED <<file_exists, lines, main_vars, variant1, converter>>

\* process_attendance2: `if not data and not error_lines` and `elif not
\* data` both print and return.
NoData_v2 ==
    /\ variant2.pc = "parsed"
    /\ variant2.data = <<>>
    /\ variant2' = [variant2 EXCEPT !.pc = "done"]
    /\ UNCHANGED <<file_exists, lines, main_vars, variant1, converter>>

RemoveDuplicates_v2 ==
    /\ variant2.pc = "parsed"
    /\ variant2.data # <<>>
    /\ variant2' = [variant2 EXCEPT !.data = remove_duplicates(variant2.data),
                                    !.pc = "deduped"]
    /\ UNCHANGED <<file_exists, lines, main_vars, variant1, converter>>

GroupByEmployeeAndDate_v2 ==
    /\ variant2.pc = "deduped"
    /\ variant2' = [variant2 EXCEPT !.grouped = group_by_employee_and_date(variant2.data),
                                    !.pc = "grouped"]
    /\ UNCHANGED <<file_exists, lines, main_vars, variant1, converter>>

ProcessDailyRecords_v2 ==
    /\ variant2.pc = "grouped"
    /\ variant2' = [variant2 EXCEPT !.grouped = SortGroups(variant2.grouped),
                                    !.final_output = process_daily_records_v2(variant2.grouped),
                                    !.pc = "summarized"]
    /\ UNCHANGED <<file_exists, lines, main_vars, variant1, converter>>

SortOutputData_v2 ==
    /\ variant2.pc = "summarized"
    /\ variant2' = [variant2 EXCEPT !.sorted_output = sort_output_data(variant2.final_output),
                                    !.pc = "sorted"]
    /\ UNCHANGED <<file_exists, lines, main_vars, variant1, converter>>

\* write_output_files: the JSON file, then the error log if there is any
\* message.
WriteOutputFiles_v2 ==
    /\ variant2.pc = "sorted"
    /\ variant2' = [variant2 EXCEPT !.json_file = Some(variant2.sorted_output),
                                    !.error_log = IF variant2.error_lines # <<>>
                                                  THEN Some(variant2.error_lines)
                                                  ELSE None,
                                    !.pc = "written"]
    /\ UNCHANGED <<file_exists, lines, main_vars, variant1, converter>>

\* generate_statistics only prints.
GenerateStatistics_v2 ==
    /\ variant2.pc = "written"
    /\ variant2' = [variant2 EXCEPT !.pc = "done"]
    /\ UNCHANGED <<file_exists, lines, main_vars, variant1, converter>>

VariantNext ==
    \/ FileNotFound_v1
    \/ ReadCsv_v1
    \/ RemoveDuplicates_v1
    \/ Group_v1
    \/ DailySummaries_v1
    \/ SortOutput_v1
    \/ WriteJson_v1
    \/ WriteErrorLog_v1
    \/ ReadAndParseData_v2
    \/ NoData_v2
    \/ RemoveDuplicates_v2
    \/ GroupByEmployeeAndDate_v2
    \/ ProcessDailyRecords_v2
    \/ SortOutputData_v2
    \/ WriteOutputFiles_v2
    \/ GenerateStatistics_v2

VariantSpec == VariantInit /\ [][VariantNext]_vars

\* ---------------------------------------------------------- the converter
\* A log file of up to MaxLogLines lines, process_log_file at its start.
ConvertInit ==
    /\ file_exists \in BOOLEAN
    /\ lines \in (IF file_exists THEN SeqsUpTo(LogLinePool, MaxLogLines) ELSE {<<>>})
    /\ InitRest

\* input_path.open("r") on a path that does not exist raises
\* FileNotFoundError.
OpenLogFileMissing ==
    /\ converter.pc = "start"
    /\ ~file_exists
    /\ converter' = [converter EXCEPT !.pc = "raised"]
    /\ UNCHANGED <<file_exists, lines, main_vars, variant1, variant2>>

OpenLogFile ==
    /\ converter.pc = "start"
    /\ file_exists
    /\ converter' = [converter EXCEPT !.pc = "reading"]
    /\ UNCHANGED <<file_exists, lines, main_vars, variant1, variant2>>

\* One iteration of the loop of process_log_file; an exception leaves the
\* function before anything is written.
ProcessLogLine ==
    /\ converter.pc = "reading"
    /\ converter.line_no < Len(lines)
    /\ LET line_no_ == converter.line_no + 1
           out == process_log_line(Split(Strip(lines[line_no_])))
       IN converter' =
            IF out.raises
            THEN [converter EXCEPT !.line_no = line_no_, !.pc = "raised"]
            ELSE [converter EXCEPT !.line_no = line_no_,
                                   !.records = converter.records \o out.record]
    /\ UNCHANGED <<file_exists, lines, main_vars, variant1, variant2>>

\* json.dump(records, f, indent=4) after the loop.
WriteConverted ==
    /\ converter.pc = "reading"
    /\ converter.line_no = Len(lines)
    /\ converter' = [converter EXCEPT !.json_file = Some(converter.records),
                                      !.pc = "done"]
    /\ UNCHANGED <<file_exists, lines, main_vars, variant1, variant2>>

ConvertNext ==
    \/ OpenLogFileMissing
    \/ OpenLogFile
    \/ ProcessLogLine
    \/ WriteConverted

ConvertSpec == ConvertInit /\ [][ConvertNext]_vars

\* ------------------------------------------------------- claims: helpers
\* The tokens of the k-th line of the file.
TokensOfLine(k) == Split(Strip(lines[k]))

\* The detected timestamp token of a token list: the first all-digit token
\* of more than six characters, None when there is none.
DetectedTimestamp(parts) ==
    IF \E i \in 1..Len(parts) : IsDigit(parts[i]) /\ Len(parts[i]) > 6
    THEN Some(parts[CHOOSE i \in 1..Len(parts) :
                      /\ IsDigit(parts[i]) /\ Len(parts[i]) > 6
                      /\ \A j \in 1..(i - 1) : ~(IsDigit(parts[j]) /\ Len(parts[j]) > 6)])
    ELSE None

\* The token converts: int() accepts it and the epoch value is a datetime.
Convertible(tok) == ~IntFails(tok) /\ ~FromTimestampFails(tok)

\* process_daily_records has just returned: grouped holds the sorted groups
\* and final_output the summaries, as they stay until the run ends.
Summarized == pc = "summarized"

\* The summaries of final_output, each with the date key it is filed under.
SummaryAt ==
    {<<i, j>> \in (1..Len(final_output)) \X (1..Len(unique)) :
        j <= Len(final_output[i].records)}

\* The summaries filed for the group g: under its date, with its emp_code.
SummariesOf(g) ==
    {ij \in SummaryAt :
        /\ final_output[ij[1]].date = DateStr(g.key[2])
        /\ final_output[ij[1]].records[ij[2]].emp_code = g.key[1]}

SummaryOf(g) ==
    LET ij == CHOOSE x \in SummariesOf(g) : TRUE
    IN final_output[ij[1]].records[ij[2]]

\* The earliest and the latest instant among the punches of the group g.
EarliestOf(g) ==
    LET i == CHOOSE a \in 1..Len(g.records) :
                 \A b \in 1..Len(g.records) :
                     g.records[a].datetime.ts <= g.records[b].datetime.ts
    IN g.records[i].datetime

LatestOf(g) ==
    LET i == CHOOSE a \in 1..Len(g.records) :
                 \A b \in 1..Len(g.records) :
                     g.records[a].datetime.ts >= g.records[b].datetime.ts
    IN g.records[i].datetime

\* The (emp_code, instant, device) triples of a list of records.
Triples(records) ==
    {<<records[i].emp_code, records[i].datetime.ts, records[i].device>> :
        i \in 1..Len(records)}

\* ------------------------------------------------------------------ claims
\* C1: every line read of an existing file adds exactly one entry, either a
\* record at the end of data or a diagnostic at the end of errors, and the
\* other list is left as it was; so len(data) + len(errors) is the number
\* of lines read.
C1_OneOutcomePerLine ==
    [][(pc = "reading" /\ line_no' = line_no + 1) =>
          /\ \/ /\ Len(data') = Len(data) + 1
                /\ SubSeq(data', 1, Len(data)) = data
                /\ errors' = errors
             \/ /\ Len(errors') = Len(errors) + 1
                /\ SubSeq(errors', 1, Len(errors)) = errors
                /\ data' = data
          /\ Len(data') + Len(errors') = line_no']_vars

\* C1 witness: a file of three lines has been read, giving records and
\* diagnostics.
C1_Witness ==
    /\ file_exists /\ pc = "parsed"
    /\ line_no = 3 /\ Len(data) = 2 /\ Len(errors) = 1

\* C2: fewer than 4 tokens give Missing columns; otherwise more than 6 give
\* Too many columns; otherwise no all-digit token longer than 6 gives Missing
\* timestamp; and a line of exactly 4 tokens whose 4th token is a valid
\* timestamp is accepted, with an empty device.
C2_ValidationOrder ==
    (file_exists /\ line_no = 1) =>
        LET parts == TokensOfLine(1)
            OnlyError(reason) ==
                /\ data = <<>>
                /\ Len(errors) = 1
                /\ errors[1].reason = reason
                /\ errors[1].line_number = 1
        IN /\ Len(parts) < 4 => OnlyError("Missing columns")
           /\ Len(parts) > 6 => OnlyError("Too many columns")
           /\ (Len(parts) \in 4..6 /\ DetectedTimestamp(parts) = None)
                  => OnlyError("Missing or invalid timestamp")
           /\ (Len(parts) = 4 /\ IsDigit(parts[4]) /\ Len(parts[4]) > 6
                 /\ Convertible(parts[4]))
                  => /\ errors = <<>>
                     /\ Len(data) = 1
                     /\ data[1].device = <<>>

\* C3: a line of 4 to 6 tokens whose detected timestamp token does not
\* convert adds exactly one Invalid timestamp diagnostic carrying its line
\* number, adds no record, and the loop goes on to the next line.
C3_InvalidTimestampRecovered ==
    [][(/\ pc = "reading"
        /\ line_no < Len(lines)
        /\ Len(TokensOfLine(line_no + 1)) \in 4..6
        /\ DetectedTimestamp(TokensOfLine(line_no + 1)) # None
        /\ ~Convertible(DetectedTimestamp(TokensOfLine(line_no + 1))[1]))
       => /\ Len(errors') = Len(errors) + 1
          /\ SubSeq(errors', 1, Len(errors)) = errors
          /\ errors'[Len(errors')].reason = "Invalid timestamp"
          /\ errors'[Len(errors')].line_number = line_no + 1
          /\ data' = data
          /\ line_no' = line_no + 1
          /\ pc' = "reading"]_vars

\* C3 witness: a timestamp int() rejects and one out of the datetime range
\* have each left a diagnostic, and a later line has still given a record.
C3_Witness ==
    /\ pc = "parsed" /\ line_no = 3
    /\ Len(errors) = 2 /\ Len(data) = 1
    /\ errors[1].reason = "Invalid timestamp" /\ errors[1].text = TsNotInt
    /\ errors[2].reason = "Invalid timestamp" /\ errors[2].text = TsOutOfRange
    /\ lines[3] = LineE1At0900

\* C4: a record's emp_code is token 0, its names are tokens 1 and 2, its
\* timestamp is a token at index 3 or later, and its device is the tokens
\* after that token joined by single spaces.
C4_DisjointFields ==
    (file_exists /\ line_no = 1 /\ data # <<>>) =>
        LET parts == TokensOfLine(1)
            r == data[1]
        IN /\ r.emp_code = parts[1]
           /\ r.first_name = parts[2]
           /\ r.last_name = parts[3]
           /\ \E i \in 4..Len(parts) :
                 /\ IsDigit(parts[i]) /\ Len(parts[i]) > 6 /\ Convertible(parts[i])
                 /\ r.timestamp = IntOf(parts[i])
                 /\ r.device = Join(SubSeq(parts, i + 1, Len(parts)), <<" ">>)

\* C5: every record's local instant is its epoch value at +06:00: the local
\* wall clock is ts + 21600 seconds, the date is day floor((ts + 21600) / 86400).
C5_FixedOffset ==
    \A i \in 1..Len(data) :
        /\ LocalSeconds(data[i].datetime) = data[i].timestamp + 21600
        /\ DateOf(data[i].datetime) = CivilFromDays((data[i].timestamp + 21600) \div 86400)

\* C6: no two records of the deduplicated list share the triple (emp_code,
\* datetime, device), and its triples are those of the parsed list.
C6_DedupUnique ==
    pc = "deduped" =>
        /\ \A i, j \in 1..Len(unique) :
              (/\ unique[i].emp_code = unique[j].emp_code
               /\ unique[i].datetime.ts = unique[j].datetime.ts
               /\ unique[i].device = unique[j].device) => i = j
        /\ Triples(unique) = Triples(data)
        /\ \A i \in 1..Len(unique) : \E j \in 1..Len(data) : unique[i] = data[j]

\* C6 witness: two lines with the same triple and one with another have been
\* deduplicated.
C6_Witness ==
    /\ pc = "deduped"
    /\ Len(data) = 3 /\ Len(unique) = 2
    /\ Cardinality(Triples(data)) = 2

\* C7: the buckets partition the deduplicated list: each bucket is keyed by
\* the (emp_code, local date) of its records, holds exactly the records of the
\* list with that key, in the list's order, and is not empty; no two buckets
\* have the same key and every record's key has a bucket.
C7_GroupPartition ==
    pc = "grouped" =>
        /\ \A i \in 1..Len(grouped) :
              LET InBucket(r) ==
                      /\ r.emp_code = grouped[i].key[1]
                      /\ CivilFromDays((r.datetime.ts + r.datetime.off) \div 86400)
                            = grouped[i].key[2]
              IN /\ grouped[i].records # <<>>
                 /\ grouped[i].records = SelectSeq(unique, InBucket)
        /\ \A i, j \in 1..Len(grouped) : grouped[i].key = grouped[j].key => i = j
        /\ \A k \in 1..Len(unique) :
              Cardinality({i \in 1..Len(grouped) :
                             \E j \in 1..Len(grouped[i].records) :
                                 grouped[i].records[j] = unique[k]}) = 1

\* C7 witness: three records fall into two buckets, one of them holding two.
C7_Witness ==
    /\ pc = "grouped"
    /\ Len(unique) = 3 /\ Len(grouped) = 2
    /\ \E i \in 1..Len(grouped) : Len(grouped[i].records) = 2

\* C8: every group has exactly one summary; its total_punches is the size of
\* the group, at least 1; its first_punch is the group's earliest and its
\* last_punch the group's latest datetime, the earliest not after the latest;
\* a group of one punch shows that punch as both.
C8_OneSummaryPerGroup ==
    Summarized =>
        /\ Cardinality(SummaryAt) = Len(grouped)
        /\ \A i \in 1..Len(grouped) :
              LET g == grouped[i]
              IN /\ Cardinality(SummariesOf(g)) = 1
                 /\ SummaryOf(g).total_punches = Len(g.records)
                 /\ SummaryOf(g).total_punches >= 1
                 /\ SummaryOf(g).first_punch = StrfHM(EarliestOf(g))
                 /\ SummaryOf(g).last_punch = StrfHM(LatestOf(g))
                 /\ EarliestOf(g).ts <= LatestOf(g).ts
                 /\ Len(g.records) = 1 =>
                       SummaryOf(g).first_punch = SummaryOf(g).last_punch

\* C8 witness: a group read latest punch first and a group of one punch have
\* both been summarized.
C8_Witness ==
    /\ pc = "summarized"
    /\ Len(unique) = 3 /\ Len(grouped) = 2
    /\ unique[1].emp_code = unique[2].emp_code
    /\ DateOf(unique[1].datetime) = DateOf(unique[2].datetime)
    /\ unique[1].datetime.ts > unique[2].datetime.ts

\* "HH:MM": a ':' before the last two characters, digits elsewhere.
IsHoursMinutes(s) ==
    /\ Len(s) >= 5
    /\ s[Len(s) - 2] = ":"
    /\ \A k \in 1..Len(s) : k # Len(s) - 2 => s[k] \in AsciiDigit

HoursOf(s) == IntOf(SubSeq(s, 1, Len(s) - 3))

MinutesOf(s) == IntOf(SubSeq(s, Len(s) - 1, Len(s)))

\* C9: working_hours is "00:00" for a group of one punch; otherwise it is
\* the time from the first to the last punch, never negative, as zero-padded
\* whole hours and whole minutes with the seconds dropped, the minutes within
\* 00..59.
C9_WorkingHours ==
    Summarized =>
        \A i \in 1..Len(grouped) :
            LET g == grouped[i]
                wh == SummaryOf(g).working_hours
                elapsed == LatestOf(g).ts - EarliestOf(g).ts
            IN /\ IsHoursMinutes(wh)
               /\ Len(g.records) = 1 => wh = <<"0", "0", ":", "0", "0">>
               /\ Len(g.records) > 1 =>
                     /\ elapsed >= 0
                     /\ MinutesOf(wh) \in 0..59
                     /\ HoursOf(wh) * 3600 + MinutesOf(wh) * 60 <= elapsed
                     /\ elapsed < HoursOf(wh) * 3600 + MinutesOf(wh) * 60 + 60
                     /\ HoursOf(wh) < 10 => Len(wh) = 5

\* C9 witness: first punch 09:00, last punch 17:45, working hours "08:45".
C9_Witness ==
    /\ pc = "summarized"
    /\ \E ij \in SummaryAt :
          LET s == final_output[ij[1]].records[ij[2]]
          IN /\ s.first_punch = <<"0", "9", ":", "0", "0">>
             /\ s.last_punch = <<"1", "7", ":", "4", "5">>
             /\ s.working_hours = <<"0", "8", ":", "4", "5">>

\* C10: late_entry is set exactly when the local time of day of the group's
\* first punch is after 09:30:00, early_exit exactly when that of its last
\* punch is before 17:00:00.
C10_Flags ==
    Summarized =>
        \A i \in 1..Len(grouped) :
            LET g == grouped[i]
                first_tod == (EarliestOf(g).ts + EarliestOf(g).off) % 86400
                last_tod == (LatestOf(g).ts + LatestOf(g).off) % 86400
            IN /\ SummaryOf(g).late_entry \in {0, 1}
               /\ SummaryOf(g).early_exit \in {0, 1}
               /\ SummaryOf(g).late_entry = 1 <=> first_tod > 9 * 3600 + 30 * 60
               /\ SummaryOf(g).early_exit = 1 <=> last_tod < 17 * 3600

\* C10 witness: a first punch at exactly 09:30 is not late and a last punch
\* at exactly 17:00 is not early; a single punch at 09:31 is late and early.
C10_Witness ==
    /\ pc = "summarized"
    /\ \E ij \in SummaryAt :
          LET s == final_output[ij[1]].records[ij[2]]
          IN /\ s.first_punch = <<"0", "9", ":", "3", "0">>
             /\ s.last_punch = <<"1", "7", ":", "0", "0">>
             /\ s.late_entry = 0 /\ s.early_exit = 0
    /\ \E ij \in SummaryAt :
          LET s == final_output[ij[1]].records[ij[2]]
          IN /\ s.first_punch = <<"0", "9", ":", "3", "1">>
             /\ s.total_punches = 1
             /\ s.late_entry = 1 /\ s.early_exit = 1

\* The table written to json_path.
WrittenTable == json_file[1]

\* C11: the table written has its date keys in ascending order and, under
\* each date, its summaries in ascending order of emp_code.
C11_TableSorted ==
    pc = "json_written" =>
        /\ \A i \in 1..(Len(WrittenTable) - 1) :
              StrLess(WrittenTable[i].date, WrittenTable[i + 1].date)
        /\ \A i \in 1..Len(WrittenTable) :
              \A j \in 1..(Len(WrittenTable[i].records) - 1) :
                  ~StrLess(WrittenTable[i].records[j + 1].emp_code,
                           WrittenTable[i].records[j].emp_code)

\* The (date key, emp_code) pairs of the parsed records.
PunchedPairs ==
    {<<DateStr(CivilFromDays((data[k].datetime.ts + data[k].datetime.off) \div 86400)),
       data[k].emp_code>> : k \in 1..Len(data)}

\* C12: the table has no date key twice and no emp_code twice under one date,
\* and its (date, emp_code) pairs are exactly those of the valid punches.
C12_OneSummaryPerEmployeeDate ==
    pc = "sorted" =>
        /\ \A i, j \in 1..Len(final_json) :
              final_json[i].date = final_json[j].date => i = j
        /\ \A i \in 1..Len(final_json) :
              /\ final_json[i].records # <<>>
              /\ \A j, k \in 1..Len(final_json[i].records) :
                    final_json[i].records[j].emp_code = final_json[i].records[k].emp_code
                        => j = k
        /\ {<<final_json[i].date, final_json[i].records[j].emp_code>> :
               <<i, j>> \in {ij \in (1..Len(final_json)) \X (1..Len(unique)) :
                               ij[2] <= Len(final_json[ij[1]].records)}}
              = PunchedPairs

\* C12 witness: two punches of one employee and one of another, all on one
\* date, give two summaries under that date.
C12_Witness ==
    /\ pc = "sorted"
    /\ Len(data) = 3
    /\ Len(final_json) = 1
    /\ Len(final_json[1].records) = 2
    /\ \E j \in 1..2 : final_json[1].records[j].total_punches = 2

\* The k-th line of the file is malformed: too few or too many tokens, no
\* token that looks like a timestamp, or one that does not convert.
Malformed(k) ==
    LET parts == TokensOfLine(k)
    IN \/ Len(parts) < 4
       \/ Len(parts) > 6
       \/ DetectedTimestamp(parts) = None
       \/ ~Convertible(DetectedTimestamp(parts)[1])

\* C13: the error list read_and_parse_data returns holds one diagnostic for
\* each failed line and nothing else, each with the 1-based number of its
\* line, in strictly ascending order of those numbers.
C13_ErrorsPerFailedLine ==
    pc = "parsed" =>
        /\ \A k \in 1..Len(errors) :
              /\ errors[k].line_number \in 1..Len(lines)
              /\ Malformed(errors[k].line_number)
        /\ \A k \in 1..(Len(errors) - 1) :
              errors[k].line_number < errors[k + 1].line_number
        /\ Len(errors) = Cardinality({k \in 1..Len(lines) : Malformed(k)})

\* C14: when every line of an existing file is malformed the run goes
\* from parsing straight to its end without raising, no record and no
\* summary is produced, and at the end the error list holds one diagnostic
\* per line, in line order.
C14_AllMalformedCompletes ==
    (file_exists /\ \A k \in 1..Len(lines) : Malformed(k)) =>
        /\ pc \in {"start", "reading", "parsed", "done"}
        /\ data = <<>>
        /\ final_output = <<>>
        /\ final_json = <<>>
        /\ json_file # None => json_file[1] = <<>>
        /\ pc = "done" =>
              /\ Len(errors) = Len(lines)
              /\ \A k \in 1..Len(errors) : errors[k].line_number = k

\* C14 witness: a run over three malformed lines of three kinds has ended.
C14_Witness ==
    /\ file_exists /\ pc = "done"
    /\ Len(lines) = 3 /\ Len(errors) = 3 /\ data = <<>>
    /\ Cardinality({errors[k].reason : k \in 1..3}) = 3

\* C15: at the end of a run over an existing file, every diagnostic
\* collected while parsing is in the error log.
C15_ErrorsLogged ==
    (file_exists /\ pc \in {"done", "raised"} /\ errors # <<>>) =>
        error_log = Some(errors)

\* C16: a run on a path that does not exist raises nothing and ends with no
\* record and no output written, its diagnostic not being an entry of the
\* per-line error list.
C16_FileNotFoundApart ==
    ~file_exists =>
        /\ pc # "raised"
        /\ pc = "done" =>
              /\ data = <<>>
              /\ json_file = None /\ excel_file = None
              /\ errors = <<>>

\* C18: write_excel_output never ends by raising: once the JSON file is
\* written, the step after it leaves the summary rows in the output file and
\* the run goes on to the error log.
C18_ExcelNeverRaises ==
    /\ pc # "raised"
    /\ pc = "excel_written" => excel_file = Some(excel_data)

\* The key str(date_) under which the summary of a record's group is filed.
DateKeyOf(r) ==
    DateStr(CivilFromDays((r.datetime.ts + r.datetime.off) \div 86400))

\* The distinct (local datetime, device) pairs among the valid lines of
\* employee emp_code on the date of key date.
PunchPairs(emp_code, date) ==
    {<<data[k].datetime.ts + data[k].datetime.off, data[k].device>> :
        k \in {n \in 1..Len(data) :
                  data[n].emp_code = emp_code /\ DateKeyOf(data[n]) = date}}

RECURSIVE SumOfPunches(_)
\* The sum of total_punches over a list of summaries.
SumOfPunches(summaries) ==
    IF summaries = <<>> THEN 0
    ELSE summaries[1].total_punches + SumOfPunches(Tail(summaries))

RECURSIVE TableSum(_)
\* The sum of total_punches over the whole table.
TableSum(table) ==
    IF table = <<>> THEN 0
    ELSE SumOfPunches(table[1].records) + TableSum(Tail(table))

\* C19: duplicates are removed before punches are counted: every summary's
\* total_punches is the number of distinct (local datetime, device) pairs
\* among its employee's valid lines on its date, and the total_punches of
\* the whole table add up to the length of the deduplicated list.
C19_CountAfterDedup ==
    Summarized =>
        /\ \A i \in 1..Len(final_output) :
              \A j \in 1..Len(final_output[i].records) :
                  final_output[i].records[j].total_punches =
                      Cardinality(PunchPairs(final_output[i].records[j].emp_code,
                                             final_output[i].date))
        /\ TableSum(final_output) = Len(unique)

\* C19 witness: three valid lines of one employee on one date, two of them
\* the same punch, have been summarized with two punches.
C19_Witness ==
    /\ Summarized
    /\ Len(data) = 3 /\ Len(unique) = 2
    /\ Len(final_output) = 1 /\ Len(final_output[1].records) = 1
    /\ final_output[1].records[1].total_punches = 2

\* Two records have the same (emp_code, datetime, device) triple.
SameTriple(r1, r2) ==
    /\ r1.emp_code = r2.emp_code
    /\ r1.datetime.ts = r2.datetime.ts
    /\ r1.device = r2.device

\* The index in the parsed list of the first and of the last record with the
\* triple of record r.
FirstIndexOf(r) ==
    CHOOSE k \in 1..Len(data) :
        SameTriple(data[k], r) /\ \A n \in 1..(k - 1) : ~SameTriple(data[n], r)

LastIndexOf(r) ==
    CHOOSE k \in 1..Len(data) :
        SameTriple(data[k], r) /\ \A n \in (k + 1)..Len(data) : ~SameTriple(data[n], r)

\* C20: each record of the deduplicated list is the last parsed record with
\* its triple, the list is in the order in which the triples first occur in
\* the parsed list, and deduplicating it again gives the same list.
C20_LastWinsFirstOrder ==
    pc = "deduped" =>
        /\ \A i \in 1..Len(unique) : unique[i] = data[LastIndexOf(unique[i])]
        /\ \A i, j \in 1..Len(unique) :
              i < j => FirstIndexOf(unique[i]) < FirstIndexOf(unique[j])
        /\ remove_duplicates(unique) = unique

\* C20 witness: the first and third parsed records share a triple and differ
\* in another field; the third is kept, in the first place.
C20_Witness ==
    /\ pc = "deduped"
    /\ Len(data) = 3 /\ Len(unique) = 2
    /\ SameTriple(data[1], data[3]) /\ data[1] # data[3]
    /\ unique = <<data[3], data[2]>>

\* C21: when both variants have run to their end on the same file, they have
\* written the same JSON summary table and the same error log, or both have
\* written none.
C21_VariantsEquivalent ==
    (variant1.pc = "done" /\ variant2.pc = "done") =>
        /\ variant1.json_file = variant2.json_file
        /\ variant1.error_log = variant2.error_log

\* The lines consumed by process_log_file that have at least 4 tokens, in
\* order.
LongLinesRead ==
    SelectSeq([k \in 1..converter.line_no |-> k],
              LAMBDA k : Len(TokensOfLine(k)) >= 4)

\* The tokens of a line that are neither its employee id (the first), nor
\* its Unix timestamp token, nor its device token (the last).
NameTokens(parts) ==
    SelectSeq(SubSeq(parts, 2, Len(parts) - 1),
              LAMBDA tok : DetectedTimestamp(parts) # Some(tok))

\* C22: process_log_file raises on no line of at least 4 tokens, and the
\* record of each such line has for name the join of the tokens that are
\* neither the employee id, the timestamp token nor the device token, and
\* for timestamp the value of the line's Unix timestamp token.
C22_NameAndTimestamp ==
    file_exists =>
        /\ converter.pc # "raised"
        /\ Len(converter.records) = Len(LongLinesRead)
        /\ \A i \in 1..Len(converter.records) :
              LET parts == TokensOfLine(LongLinesRead[i])
              IN /\ converter.records[i].name = Join(NameTokens(parts), <<" ">>)
                 /\ DetectedTimestamp(parts) # None
                 /\ Str(converter.records[i].timestamp)
                        = StripZeros(DetectedTimestamp(parts)[1])

\* The late-entry limit as first_punch displays it.
Shown0930 == <<"0", "9", ":", "3", "0">>

\* C23 as stated: late_entry is set exactly when the first_punch shown in
\* the same summary is later than "09:30", so two summaries showing the same
\* first_punch carry the same late_entry.
C23_FlagMatchesShown ==
    Summarized =>
        /\ \A ij \in SummaryAt :
              LET s == final_output[ij[1]].records[ij[2]]
              IN s.late_entry = 1 <=> StrLess(Shown0930, s.first_punch)
        /\ \A ij, kl \in SummaryAt :
              LET s == final_output[ij[1]].records[ij[2]]
                  t == final_output[kl[1]].records[kl[2]]
              IN s.first_punch = t.first_punch => s.late_entry = t.late_entry

\* C23 amended: a first_punch shown later than "09:30" comes with late_entry
\* set and one shown earlier with late_entry clear; a first_punch shown as
\* "09:30" comes with late_entry set exactly when the first punch is some
\* seconds past 09:30:00.
C23_FlagByShownAndSeconds ==
    Summarized =>
        \A i \in 1..Len(grouped) :
            LET s == SummaryOf(grouped[i])
                seconds == (EarliestOf(grouped[i]).ts + EarliestOf(grouped[i]).off) % 60
            IN /\ StrLess(Shown0930, s.first_punch) => s.late_entry = 1
               /\ StrLess(s.first_punch, Shown0930) => s.late_entry = 0
               /\ s.first_punch = Shown0930 => (s.late_entry = 1 <=> seconds # 0)

\* C23 witness: two summaries show "09:30", one of a punch at 09:30:00 with
\* late_entry clear, one of a punch at 09:30:30 with late_entry set.
C23_Witness ==
    /\ Summarized
    /\ \E ij, kl \in SummaryAt :
          LET s == final_output[ij[1]].records[ij[2]]
              t == final_output[kl[1]].records[kl[2]]
          IN /\ s.first_punch = Shown0930 /\ s.late_entry = 0
             /\ t.first_punch = Shown0930 /\ t.late_entry = 1

====
